---- MODULE Spec2Model ----
(***************************************************************************)
(* The meeting-transcription endpoint: one invocation of `handler`, in its *)
(* two copies (src/api/transcribe.js and the older copy kept beside it),   *)
(* as a state machine whose steps are the stretches of code between two    *)
(* awaits.  Strings the code inspects (the audio URL, error messages) are  *)
(* sequences of one-character strings, so that includes(), toLowerCase()   *)
(* and template concatenation are computed as JavaScript computes them.    *)
(***************************************************************************)
EXTENDS Integers, Sequences, FiniteSets, TLC

VARIABLES variant, req, pc, headers, downloadUrl, audioResponse, audioFile,
          transcription, gptResponse, calls, responses

vars == <<variant, req, pc, headers, downloadUrl, audioResponse, audioFile,
          transcription, gptResponse, calls, responses>>

(***************************************************************************)
(* Bounds of the model.                                                    *)
(***************************************************************************)
MaxUrlTokens == 3
MaxParticipants == 2

(***************************************************************************)
(* JavaScript values.  Each kind has its own field name, so values of      *)
(* different kinds are unequal without ever comparing a string to a tuple. *)
(***************************************************************************)
Undefined == [t |-> "undefined"]
Null == [t |-> "null"]
Str(s) == [t |-> "string", s |-> s]
Txt(o) == [t |-> "text", o |-> o]
Num(n) == [t |-> "number", n |-> n]
Arr(a) == [t |-> "array", a |-> a]
Obj(f) == [t |-> "object", f |-> f]

\* JavaScript truthiness, as used by `!x`, `x && y` and `x || y`.
Truthy(v) ==
    CASE v.t = "undefined" -> FALSE
      [] v.t = "null" -> FALSE
      [] v.t = "string" -> v.s # <<>>
      [] v.t = "text" -> v.o # ""
      [] v.t = "number" -> v.n # 0
      [] OTHER -> TRUE

\* `a || b`
OrElse(a, b) == IF Truthy(a) THEN a ELSE b

(***************************************************************************)
(* String operations on sequences of characters.                           *)
(***************************************************************************)
UpperChars == <<"A", "B", "C", "D", "E", "F", "G", "H", "I", "J", "K", "L", "M",
                "N", "O", "P", "Q", "R", "S", "T", "U", "V", "W", "X", "Y", "Z">>
LowerChars == <<"a", "b", "c", "d", "e", "f", "g", "h", "i", "j", "k", "l", "m",
                "n", "o", "p", "q", "r", "s", "t", "u", "v", "w", "x", "y", "z">>

LowerChar(c) ==
    IF \E i \in 1..Len(UpperChars) : UpperChars[i] = c
    THEN LowerChars[CHOOSE i \in 1..Len(UpperChars) : UpperChars[i] = c]
    ELSE c

\* String.prototype.toLowerCase
ToLowerCase(s) == [i \in 1..Len(s) |-> LowerChar(s[i])]

\* String.prototype.includes
Includes(s, sub) ==
    \E i \in 0..(Len(s) - Len(sub)) :
        \A j \in 1..Len(sub) : s[i + j] = sub[j]

DigitChars == <<"0", "1", "2", "3", "4", "5", "6", "7", "8", "9">>

\* The decimal rendering of a non-negative integer inside a template literal.
RECURSIVE NumToStr(_)
NumToStr(n) ==
    IF n < 10 THEN <<DigitChars[n + 1]>>
    ELSE NumToStr(n \div 10) \o <<DigitChars[(n % 10) + 1]>>

RECURSIVE Flatten(_)
Flatten(parts) ==
    IF parts = <<>> THEN <<>> ELSE Head(parts) \o Flatten(Tail(parts))

RECURSIVE SeqsUpTo(_, _)
SeqsUpTo(S, n) ==
    IF n = 0 THEN {<<>>}
    ELSE LET shorter == SeqsUpTo(S, n - 1)
         IN  shorter \cup {Append(q, x) : q \in shorter, x \in S}

(***************************************************************************)
(* String literals of the two handlers.                                    *)
(***************************************************************************)
S_workdrive == <<"w", "o", "r", "k", "d", "r", "i", "v", "e", ".", "z", "o", "h", "o">>
S_question == <<"?">>
S_ampDirect == <<"&", "d", "i", "r", "e", "c", "t", "D", "o", "w", "n", "l", "o", "a", "d", "=", "t", "r", "u", "e">>
S_questionDirect == <<"?", "d", "i", "r", "e", "c", "t", "D", "o", "w", "n", "l", "o", "a", "d", "=", "t", "r", "u", "e">>
E_mp3 == <<".", "m", "p", "3">>
E_wav == <<".", "w", "a", "v">>
E_m4a == <<".", "m", "4", "a">>
E_mp4 == <<".", "m", "p", "4">>
E_ogg == <<".", "o", "g", "g">>
E_webm == <<".", "w", "e", "b", "m">>
M_downloadPrefix == <<"F", "a", "i", "l", "e", "d", " ", "t", "o", " ", "d", "o", "w", "n", "l", "o", "a", "d", " ", "a", "u", "d", "i", "o", " ", "f", "i", "l", "e", ":", " ">>
M_downloadPlain == <<"F", "a", "i", "l", "e", "d", " ", "t", "o", " ", "d", "o", "w", "n", "l", "o", "a", "d", " ", "a", "u", "d", "i", "o", " ", "f", "i", "l", "e">>

(***************************************************************************)
(* Messages of the errors the runtime and the external services raise.     *)
(* The handlers only pass them on as error.message.                        *)
(***************************************************************************)
M_destructure == <<"C", "a", "n", "n", "o", "t", " ", "d", "e", "s", "t", "r", "u", "c", "t", "u", "r", "e", " ", "r", "e", "q", ".", "b", "o", "d", "y">>
M_includes == <<"a", "u", "d", "i", "o", "U", "r", "l", ".", "i", "n", "c", "l", "u", "d", "e", "s", " ", "i", "s", " ", "n", "o", "t", " ", "a", " ", "f", "u", "n", "c", "t", "i", "o", "n">>
M_map == <<"p", "a", "r", "t", "i", "c", "i", "p", "a", "n", "t", "s", ".", "m", "a", "p", " ", "i", "s", " ", "n", "o", "t", " ", "a", " ", "f", "u", "n", "c", "t", "i", "o", "n">>
M_nullSpeaker == <<"C", "a", "n", "n", "o", "t", " ", "r", "e", "a", "d", " ", "'", "s", "p", "e", "a", "k", "e", "r", "'", " ", "o", "f", " ", "n", "u", "l", "l">>
M_noChoice == <<"C", "a", "n", "n", "o", "t", " ", "r", "e", "a", "d", " ", "'", "m", "e", "s", "s", "a", "g", "e", "'", " ", "o", "f", " ", "u", "n", "d", "e", "f", "i", "n", "e", "d">>
M_badUrl == <<"F", "a", "i", "l", "e", "d", " ", "t", "o", " ", "p", "a", "r", "s", "e", " ", "U", "R", "L">>
M_fetchFailed == <<"f", "e", "t", "c", "h", " ", "f", "a", "i", "l", "e", "d">>
M_terminated == <<"t", "e", "r", "m", "i", "n", "a", "t", "e", "d">>
M_whisper == <<"4", "0", "1", " ", "I", "n", "c", "o", "r", "r", "e", "c", "t", " ", "A", "P", "I", " ", "k", "e", "y">>
M_gpt == <<"4", "2", "9", " ", "R", "a", "t", "e", " ", "l", "i", "m", "i", "t">>
ST_ok == <<"O", "K">>
ST_notFound == <<"N", "o", "t", " ", "F", "o", "u", "n", "d">>
ST_unavailable == <<"S", "e", "r", "v", "i", "c", "e", " ", "U", "n", "a", "v", "a", "i", "l", "a", "b", "l", "e">>

(***************************************************************************)
(* Inputs: the pieces audio URLs are built from, and the requests.         *)
(***************************************************************************)
T_host == <<"h", "/", "f">>
T_MP3 == <<".", "M", "P", "3">>
T_M4A == <<".", "M", "4", "A">>
UrlTokens == {T_host, S_workdrive, S_question, E_mp3, T_MP3, E_wav, T_M4A,
              E_mp4, E_ogg, E_webm}

\* Every URL made of 1..n tokens.
Urls(n) == {Flatten(q) : q \in SeqsUpTo(UrlTokens, n) \ {<<>>}}

SampleUrls == {T_host \o E_mp3,
               T_host \o E_webm \o T_MP3,
               S_workdrive \o T_host,
               S_workdrive \o T_host \o S_question \o E_wav}

Methods == {"OPTIONS", "GET", "POST"}

ParticipantHints ==
    {Obj([speaker |-> Txt("Ann"), sampleQuote |-> Txt("Hello all")]),
     Obj([speaker |-> Txt("Bob"), sampleQuote |-> Undefined]),
     Null}

\* What a JSON body can carry in `participants`: nothing, an array of hints
\* (possibly holding a null), a non-empty string, or an object without length.
ParticipantValues ==
    {Undefined, Str(<<"a", "b">>), Obj([note |-> Txt("none")])}
        \cup {Arr(a) : a \in SeqsUpTo(ParticipantHints, MaxParticipants)}

\* req.body as the runtime hands it over: undefined when nothing was parsed,
\* null for the JSON text "null", or the parsed object.
Bodies(urls, keys, names, parts) ==
    {Undefined, Null} \cup
    {Obj(b) : b \in [audioUrl : urls, meetingName : names,
                     participants : parts, openaiApiKey : keys]}

AllRequests ==
    [method : Methods,
     body : Bodies({Undefined, Str(<<>>), Num(5)} \cup {Str(u) : u \in SampleUrls},
                   {Undefined, Txt(""), Txt("k")},
                   {Undefined, Txt("Standup")},
                   ParticipantValues)]

UrlRequests ==
    [method : {"POST"},
     body : {Obj(b) : b \in [audioUrl : {Str(u) : u \in Urls(MaxUrlTokens)},
                              meetingName : {Undefined},
                              participants : {Undefined},
                              openaiApiKey : {Txt("k")}]}]

(***************************************************************************)
(* What the external services can answer.                                  *)
(***************************************************************************)
HttpResponses ==
    {[status |-> 200, statusText |-> ST_ok],
     [status |-> 404, statusText |-> ST_notFound],
     [status |-> 503, statusText |-> ST_unavailable]}

\* Response.ok of the Fetch API: the status is in 200..299.
ResponseOk(r) == r.status >= 200 /\ r.status <= 299

\* fetch(url): a rejection, or a response.  A value that is no URL is rejected.
FetchOutcomes(url) ==
    IF url.t # "string" THEN {[rejected |-> TRUE, message |-> M_badUrl]}
    ELSE {[rejected |-> TRUE, message |-> M_fetchFailed]}
         \cup {[rejected |-> FALSE, response |-> r] : r \in HttpResponses}

Transcriptions ==
    {[text |-> Txt("hello world"),
      segments |-> Arr(<<[start |-> 0, end |-> 5, text |-> "hello world"]>>),
      duration |-> Num(5), language |-> Txt("es")],
     [text |-> Txt("hi"), segments |-> Undefined,
      duration |-> Undefined, language |-> Undefined]}

TranscribeOutcomes ==
    {[rejected |-> TRUE, message |-> M_whisper]}
        \cup {[rejected |-> FALSE, value |-> t] : t \in Transcriptions}

SpeakerAnn == [name |-> "Ann"]

J_full == "{\"transcript\":\"Ann: hello world\",\"speakers\":[{\"name\":\"Ann\"}],\"meetingSummary\":\"Recap.\"}"
J_blank == "{\"transcript\":\"\",\"speakers\":[],\"meetingSummary\":\"\"}"
J_speakersOnly == "{\"speakers\":[{\"name\":\"Ann\"}]}"
J_empty == "{}"
J_null == "null"
J_number == "42"
J_truncated == "{\"transcript\":\"Ann: hel"
J_prose == "The team met and agreed on the plan."

\* message.content of a chat completion: a string, or null.
Contents ==
    {Null} \cup {Txt(s) : s \in {J_full, J_blank, J_speakersOnly, J_empty,
                                 J_null, J_number, J_truncated, J_prose}}

ChatOutcomes ==
    {[rejected |-> TRUE, message |-> M_gpt],
     [rejected |-> FALSE, value |-> [choices |-> <<>>]]}
        \cup {[rejected |-> FALSE,
               value |-> [choices |-> <<[message |-> [content |-> c]]>>]]
              : c \in Contents}

\* JSON.parse on the texts above: the parsed value, or a SyntaxError.
JSONParse(s) ==
    CASE s = J_full ->
           [threw |-> FALSE,
            value |-> Obj([transcript |-> Txt("Ann: hello world"),
                           speakers |-> Arr(<<SpeakerAnn>>),
                           meetingSummary |-> Txt("Recap.")])]
      [] s = J_blank ->
           [threw |-> FALSE,
            value |-> Obj([transcript |-> Txt(""), speakers |-> Arr(<<>>),
                           meetingSummary |-> Txt("")])]
      [] s = J_speakersOnly ->
           [threw |-> FALSE,
            value |-> Obj([transcript |-> Undefined,
                           speakers |-> Arr(<<SpeakerAnn>>),
                           meetingSummary |-> Undefined])]
      [] s = J_empty ->
           [threw |-> FALSE,
            value |-> Obj([transcript |-> Undefined, speakers |-> Undefined,
                           meetingSummary |-> Undefined])]
      [] s = J_null -> [threw |-> FALSE, value |-> Null]
      [] s = J_number -> [threw |-> FALSE, value |-> Num(42)]
      [] OTHER -> [threw |-> TRUE, value |-> Undefined]

(***************************************************************************)
(* The handler's pure steps.                                               *)
(***************************************************************************)
Variants == {"api/transcribe.js", "part_000"}

CorsHeaders ==
    [origin |-> "*", methods |-> "POST, OPTIONS", allowHeaders |-> "Content-Type"]

\* `if (!audioUrl) ... if (!openaiApiKey) ...`: the 400 message, or "" when
\* both fields are present.
ValidationError(body) ==
    IF ~Truthy(body.audioUrl) THEN "audioUrl is required"
    ELSE IF ~Truthy(body.openaiApiKey) THEN "openaiApiKey is required"
    ELSE ""

\* api/transcribe.js: the URL handed to fetch.  A truthy audioUrl that is no
\* string has no includes(), and the call throws a TypeError.
RewriteUrl(audioUrl) ==
    IF audioUrl.t # "string"
    THEN [threw |-> TRUE, message |-> M_includes, url |-> Undefined]
    ELSE IF Includes(audioUrl.s, S_workdrive)
         THEN IF Includes(audioUrl.s, S_question)
              THEN [threw |-> FALSE, message |-> <<>>,
                    url |-> Str(audioUrl.s \o S_ampDirect)]
              ELSE [threw |-> FALSE, message |-> <<>>,
                    url |-> Str(audioUrl.s \o S_questionDirect)]
         ELSE [threw |-> FALSE, message |-> <<>>, url |-> audioUrl]

\* The older copy fetches audioUrl as it is.
PlainUrl(audioUrl) == [threw |-> FALSE, message |-> <<>>, url |-> audioUrl]

ResolveUrl(v, audioUrl) ==
    IF v = "api/transcribe.js" THEN RewriteUrl(audioUrl) ELSE PlainUrl(audioUrl)

\* `if (!audioResponse.ok) throw ...`
DownloadRefusedNever(r) == FALSE

DownloadRefused(r) == ~ResponseOk(r)

\* The message of the Error thrown for a refused download.
DownloadErrorMessage(r) ==
    M_downloadPrefix \o NumToStr(r.status) \o <<" ">> \o r.statusText

DownloadErrorMessagePlain(r) == M_downloadPlain

DownloadError(v, r) ==
    IF v = "api/transcribe.js" THEN DownloadErrorMessage(r)
    ELSE DownloadErrorMessagePlain(r)

\* api/transcribe.js: MIME type and file name from the audio URL.
DetectFileType(audioUrl) ==
    LET lower == ToLowerCase(audioUrl)
    IN  IF Includes(lower, E_mp3) THEN [type |-> "audio/mpeg", name |-> "audio.mp3"]
        ELSE IF Includes(lower, E_wav) THEN [type |-> "audio/wav", name |-> "audio.wav"]
        ELSE IF Includes(lower, E_m4a) THEN [type |-> "audio/mp4", name |-> "audio.m4a"]
        ELSE IF Includes(lower, E_mp4) THEN [type |-> "audio/mp4", name |-> "audio.mp4"]
        ELSE IF Includes(lower, E_ogg) THEN [type |-> "audio/ogg", name |-> "audio.ogg"]
        ELSE IF Includes(lower, E_webm) THEN [type |-> "audio/webm", name |-> "audio.webm"]
        ELSE [type |-> "audio/mp4", name |-> "audio.m4a"]

\* The older copy labels every download as MP3.
FixedFileType(audioUrl) == [type |-> "audio/mpeg", name |-> "audio.mp3"]

\* In the older copy audioUrl is never inspected, so it may be any truthy value.
AudioFile(v, audioUrl) ==
    IF v = "api/transcribe.js" THEN DetectFileType(audioUrl.s)
    ELSE FixedFileType(audioUrl)

\* `participants && participants.length > 0`: strings and arrays have a length.
HasParticipants(participants) ==
    /\ Truthy(participants)
    /\ CASE participants.t = "array" -> Len(participants.a) > 0
         [] participants.t = "string" -> Len(participants.s) > 0
         [] OTHER -> FALSE

\* participants.map(...).join('\n'): the numbered lines, or the TypeError of a
\* value without map() or of a null entry.
ParticipantList(participants) ==
    IF participants.t # "array"
    THEN [threw |-> TRUE, message |-> M_map, lines |-> <<>>]
    ELSE IF \E i \in 1..Len(participants.a) : participants.a[i] = Null
         THEN [threw |-> TRUE, message |-> M_nullSpeaker, lines |-> <<>>]
         ELSE [threw |-> FALSE, message |-> <<>>,
               lines |-> [i \in 1..Len(participants.a) |->
                            [number |-> i,
                             speaker |-> participants.a[i].f.speaker,
                             sampleQuote |-> OrElse(participants.a[i].f.sampleQuote,
                                                    Txt("Not provided"))]]]

\* gptResponse.choices[0].message.content, or the TypeError of no choice.
FirstContent(response) ==
    IF response.choices = <<>> THEN [threw |-> TRUE, content |-> Undefined]
    ELSE [threw |-> FALSE, content |-> response.choices[1].message.content]

\* JSON.parse(content): a null content is parsed as the text "null".
ParseContent(content) ==
    IF content = Null THEN JSONParse(J_null) ELSE JSONParse(content.o)

\* analysis.<key>: undefined on a value that is no object.
Field(analysis, key) ==
    IF analysis.t = "object" THEN analysis.f[key] ELSE Undefined

\* Whether the inner try block runs to its end: a choice exists, its content
\* parses, and the parsed value is not null.
AnalysisUsable(response) ==
    /\ ~FirstContent(response).threw
    /\ ~ParseContent(FirstContent(response).content).threw
    /\ ParseContent(FirstContent(response).content).value # Null

\* The inner try/catch of the attribution branch.
AttributionKeepsReply(response, text) ==
    IF AnalysisUsable(response)
    THEN LET analysis == ParseContent(FirstContent(response).content).value
         IN  [matchedTranscript |-> OrElse(Field(analysis, "transcript"), text),
              speakerSummaries |-> OrElse(Field(analysis, "speakers"), Arr(<<>>)),
              meetingSummary |-> OrElse(Field(analysis, "meetingSummary"), Txt(""))]
    ELSE [matchedTranscript |->
              IF FirstContent(response).threw THEN text
              ELSE FirstContent(response).content,
          speakerSummaries |-> Arr(<<>>),
          meetingSummary |-> Txt("")]

Attribution(response, text) ==
    IF AnalysisUsable(response)
    THEN LET analysis == ParseContent(FirstContent(response).content).value
         IN  [matchedTranscript |-> OrElse(Field(analysis, "transcript"), text),
              speakerSummaries |-> OrElse(Field(analysis, "speakers"), Arr(<<>>)),
              meetingSummary |-> OrElse(Field(analysis, "meetingSummary"), Txt(""))]
    ELSE [matchedTranscript |-> text,
          speakerSummaries |-> Arr(<<>>),
          meetingSummary |-> Txt("")]

\* The summary-only branch: only meetingSummary is assigned.
SummaryAsTranscript(content, text) ==
    [matchedTranscript |-> content, speakerSummaries |-> Arr(<<>>),
     meetingSummary |-> content]

Summary(content, text) ==
    [matchedTranscript |-> text, speakerSummaries |-> Arr(<<>>),
     meetingSummary |-> content]

\* `const result = {...}`
ResultRawFromMatched(meetingName, a, t) ==
    [success |-> TRUE,
     meetingName |-> OrElse(meetingName, Txt("Untitled Meeting")),
     transcript |-> a.matchedTranscript,
     rawTranscript |-> a.matchedTranscript,
     segments |-> OrElse(t.segments, Arr(<<>>)),
     speakers |-> a.speakerSummaries,
     meetingSummary |-> a.meetingSummary,
     duration |-> OrElse(t.duration, Num(0)),
     language |-> OrElse(t.language, Txt("en"))]

Result(meetingName, a, t) ==
    [success |-> TRUE,
     meetingName |-> OrElse(meetingName, Txt("Untitled Meeting")),
     transcript |-> a.matchedTranscript,
     rawTranscript |-> t.text,
     segments |-> OrElse(t.segments, Arr(<<>>)),
     speakers |-> a.speakerSummaries,
     meetingSummary |-> a.meetingSummary,
     duration |-> OrElse(t.duration, Num(0)),
     language |-> OrElse(t.language, Txt("en"))]

\* The body and status of the catch block's response.
ErrorResponseGeneric(message) ==
    [status |-> 500,
     body |-> [error |-> "Transcription failed", message |-> M_fetchFailed]]

ErrorResponse(message) ==
    [status |-> 500,
     body |-> [error |-> "Transcription failed", message |-> message]]

(***************************************************************************)
(* The state machine.  pc is the await the invocation is suspended at.     *)
(* calls is the history of external calls, each with how it ended:         *)
(* "pending", "headers" (fetch answered with a success status, the body is *)
(* still to be read), "ok", "rejected" (the promise rejected, with the     *)
(* rejection's message) or "refused" (fetch answered a non-success status).*)
(***************************************************************************)
Call(api, arg) ==
    [api |-> api, arg |-> arg, outcome |-> "pending", message |-> <<>>]

Ended(outcome, message) ==
    [calls EXCEPT ![Len(calls)] =
        [@ EXCEPT !.outcome = outcome, !.message = message]]

\* res.status(...).json(...) / .end(), followed by return.
Respond(r) ==
    /\ responses' = Append(responses, r)
    /\ pc' = "done"

\* catch (error) { ... return res.status(500).json(...) }
CatchSilently(message) ==
    /\ responses' = responses
    /\ pc' = "done"

Catch(message) == Respond(ErrorResponse(message))

Init ==
    /\ variant \in Variants
    /\ req \in AllRequests
    /\ pc = "start"
    /\ headers = Undefined
    /\ downloadUrl = Undefined
    /\ audioResponse = Undefined
    /\ audioFile = Undefined
    /\ transcription = Undefined
    /\ gptResponse = Undefined
    /\ calls = <<>>
    /\ responses = <<>>

InitUrl ==
    /\ variant \in Variants
    /\ req \in UrlRequests
    /\ pc = "start"
    /\ headers = Undefined
    /\ downloadUrl = Undefined
    /\ audioResponse = Undefined
    /\ audioFile = Undefined
    /\ transcription = Undefined
    /\ gptResponse = Undefined
    /\ calls = <<>>
    /\ responses = <<>>

\* From the invocation to the first await: CORS headers, method dispatch,
\* destructuring of req.body, validation, and the start of the download.
Receive ==
    /\ pc = "start"
    /\ headers' = CorsHeaders
    /\ UNCHANGED <<variant, req, audioResponse, audioFile, transcription, gptResponse>>
    /\ IF req.method = "OPTIONS"
       THEN /\ Respond([status |-> 200, body |-> Undefined])
            /\ UNCHANGED <<downloadUrl, calls>>
       ELSE IF req.method # "POST"
       THEN /\ Respond([status |-> 405, body |-> [error |-> "Method not allowed"]])
            /\ UNCHANGED <<downloadUrl, calls>>
       ELSE IF req.body \in {Undefined, Null}
       THEN /\ Catch(M_destructure)
            /\ UNCHANGED <<downloadUrl, calls>>
       ELSE IF ValidationError(req.body.f) # ""
       THEN /\ Respond([status |-> 400,
                        body |-> [error |-> ValidationError(req.body.f)]])
            /\ UNCHANGED <<downloadUrl, calls>>
       ELSE LET r == ResolveUrl(variant, req.body.f.audioUrl)
            IN  IF r.threw
                THEN /\ Catch(r.message)
                     /\ UNCHANGED <<downloadUrl, calls>>
                ELSE /\ downloadUrl' = r.url
                     /\ calls' = <<Call("fetch", r.url)>>
                     /\ pc' = "fetch"
                     /\ UNCHANGED responses

\* `await fetch(...)` settles.
FetchReturns ==
    /\ pc = "fetch"
    /\ UNCHANGED <<variant, req, headers, downloadUrl, audioFile, transcription, gptResponse>>
    /\ \E o \in FetchOutcomes(downloadUrl) :
         IF o.rejected
         THEN /\ calls' = Ended("rejected", o.message)
              /\ Catch(o.message)
              /\ UNCHANGED audioResponse
         ELSE /\ audioResponse' = o.response
              /\ calls' = Ended(IF ResponseOk(o.response) THEN "headers" ELSE "refused",
                                <<>>)
              /\ IF DownloadRefused(o.response)
                 THEN Catch(DownloadError(variant, o.response))
                 ELSE /\ pc' = "arrayBuffer"
                      /\ UNCHANGED responses

\* `await audioResponse.arrayBuffer()` settles; then the file is labelled and
\* the transcription call starts.
ArrayBufferReturns ==
    /\ pc = "arrayBuffer"
    /\ UNCHANGED <<variant, req, headers, downloadUrl, audioResponse, transcription, gptResponse>>
    /\ \E read \in BOOLEAN :
         IF ~read
         THEN /\ calls' = Ended("rejected", M_terminated)
              /\ Catch(M_terminated)
              /\ UNCHANGED audioFile
         ELSE LET file == AudioFile(variant, req.body.f.audioUrl)
                  last == calls[Len(calls)].outcome
              IN  /\ audioFile' = file
                  /\ calls' = Append(Ended(IF last = "headers" THEN "ok" ELSE last, <<>>),
                                     Call("transcriptions", file))
                  /\ pc' = "transcribe"
                  /\ UNCHANGED responses

\* `await openai.audio.transcriptions.create(...)` settles; then the branch on
\* participants builds its prompt and starts the one chat call.
TranscribeReturns ==
    /\ pc = "transcribe"
    /\ UNCHANGED <<variant, req, headers, downloadUrl, audioResponse, audioFile, gptResponse>>
    /\ \E o \in TranscribeOutcomes :
         IF o.rejected
         THEN /\ calls' = Ended("rejected", o.message)
              /\ Catch(o.message)
              /\ UNCHANGED transcription
         ELSE LET participants == req.body.f.participants
                  list == ParticipantList(participants)
              IN  /\ transcription' = o.value
                  /\ IF HasParticipants(participants)
                     THEN IF list.threw
                          THEN /\ calls' = Ended("ok", <<>>)
                               /\ Catch(list.message)
                          ELSE /\ calls' = Append(Ended("ok", <<>>),
                                      Call("chat", [mode |-> "attribution",
                                                    participantList |-> list.lines,
                                                    transcript |-> o.value.text,
                                                    json_object |-> TRUE,
                                                    max_tokens |-> 4000]))
                               /\ pc' = "chat"
                               /\ UNCHANGED responses
                     ELSE /\ calls' = Append(Ended("ok", <<>>),
                                 Call("chat", [mode |-> "summary",
                                               participantList |-> <<>>,
                                               transcript |-> o.value.text,
                                               json_object |-> FALSE,
                                               max_tokens |-> 500]))
                          /\ pc' = "chat"
                          /\ UNCHANGED responses

\* `await openai.chat.completions.create(...)` settles; then the reply is
\* used and the result is sent.
ChatReturns ==
    /\ pc = "chat"
    /\ UNCHANGED <<variant, req, headers, downloadUrl, audioResponse, audioFile, transcription>>
    /\ \E o \in ChatOutcomes :
         IF o.rejected
         THEN /\ calls' = Ended("rejected", o.message)
              /\ Catch(o.message)
              /\ UNCHANGED gptResponse
         ELSE /\ gptResponse' = o.value
              /\ calls' = Ended("ok", <<>>)
              /\ IF calls[Len(calls)].arg.mode = "attribution"
                 THEN Respond([status |-> 200,
                               body |-> Result(req.body.f.meetingName,
                                               Attribution(o.value, transcription.text),
                                               transcription)])
                 ELSE IF FirstContent(o.value).threw
                 THEN Catch(M_noChoice)
                 ELSE Respond([status |-> 200,
                               body |-> Result(req.body.f.meetingName,
                                               Summary(FirstContent(o.value).content,
                                                       transcription.text),
                                               transcription)])

Next ==
    \/ Receive
    \/ FetchReturns
    \/ ArrayBufferReturns
    \/ TranscribeReturns
    \/ ChatReturns

Spec == Init /\ [][Next]_vars

\* The same handler over every URL of up to MaxUrlTokens tokens.
SpecUrl == InitUrl /\ [][Next]_vars

\* Every started external call settles, and the event loop runs the handler.
FairSpec ==
    /\ Spec
    /\ WF_vars(Receive)
    /\ WF_vars(FetchReturns)
    /\ WF_vars(ArrayBufferReturns)
    /\ WF_vars(TranscribeReturns)
    /\ WF_vars(ChatReturns)

(***************************************************************************)
(* Vocabulary of the properties.                                           *)
(***************************************************************************)
IsPost == req.method = "POST"

HasBody == req.body.t = "object"

\* A POST request that passes validation.
Validated ==
    /\ IsPost
    /\ HasBody
    /\ Truthy(req.body.f.audioUrl)
    /\ Truthy(req.body.f.openaiApiKey)

\* The invocation has answered 200 with a result object.
Succeeded ==
    /\ responses # <<>>
    /\ responses[1].status = 200
    /\ responses[1].body # Undefined

LastCall == calls[Len(calls)]

\* The chat call of the attribution branch resolved with a content that
\* JSON.parse rejects.
UnparsableAttribution ==
    /\ pc = "done"
    /\ IsPost
    /\ Len(calls) = 3
    /\ req.body.f.participants.t = "array"
    /\ Len(req.body.f.participants.a) > 0
    /\ calls[3].arg.mode = "attribution"
    /\ calls[3].outcome = "ok"
    /\ gptResponse.choices # <<>>
    /\ gptResponse.choices[1].message.content.t = "text"
    /\ JSONParse(gptResponse.choices[1].message.content.o).threw

\* The attribution reply was parsed by JSON.parse without an error.
ParsedReply ==
    /\ gptResponse # Undefined
    /\ gptResponse.choices # <<>>
    /\ LET content == gptResponse.choices[1].message.content
       IN  JSONParse(IF content = Null THEN "null" ELSE content.o).threw = FALSE

(***************************************************************************)
(* C1: when download, transcription and the language-model call succeed    *)
(* for a request with a non-empty participants list but the reply is not   *)
(* parsable JSON, the handler answers 200 with success = true, transcript  *)
(* = rawTranscript (the transcription's text), speakers = [] and           *)
(* meetingSummary = "".                                                    *)
(***************************************************************************)
C1_ParseFailureDegrades ==
    UnparsableAttribution =>
        /\ Len(responses) = 1
        /\ responses[1].status = 200
        /\ responses[1].body.success = TRUE
        /\ responses[1].body.rawTranscript = transcription.text
        /\ responses[1].body.transcript = responses[1].body.rawTranscript
        /\ responses[1].body.speakers = Arr(<<>>)
        /\ responses[1].body.meetingSummary = Txt("")

C1_Witness ==
    /\ UnparsableAttribution
    /\ Succeeded
    /\ gptResponse.choices[1].message.content = Txt(J_truncated)

(***************************************************************************)
(* C2: in every 200 result, rawTranscript is the text the transcription    *)
(* service returned, whether attribution parsed, failed to parse or was    *)
(* skipped.                                                                *)
(***************************************************************************)
C2_RawTranscriptVerbatim ==
    Succeeded =>
        /\ Len(calls) = 3
        /\ calls[2].outcome = "ok"
        /\ transcription \in Transcriptions
        /\ responses[1].body.rawTranscript = transcription.text

C2_Witness ==
    /\ Succeeded
    /\ calls[3].arg.mode = "attribution"
    /\ responses[1].body.transcript = Txt("Ann: hello world")
    /\ responses[1].body.rawTranscript = Txt("hello world")

(***************************************************************************)
(* C3: a POST request missing audioUrl (absent or empty) is answered 400   *)
(* { error: "audioUrl is required" }; one that has audioUrl but misses     *)
(* openaiApiKey is answered 400 { error: "openaiApiKey is required" }; in  *)
(* both cases no external call is ever made.  A request with no body, or   *)
(* with the JSON body null, has no audioUrl.                               *)
(***************************************************************************)
MissingAudioUrl == ~HasBody \/ ~Truthy(req.body.f.audioUrl)

MissingApiKey ==
    /\ HasBody
    /\ Truthy(req.body.f.audioUrl)
    /\ ~Truthy(req.body.f.openaiApiKey)

Rejected(text) ==
    /\ calls = <<>>
    /\ pc \in {"start", "done"}
    /\ pc = "done" =>
          responses = <<[status |-> 400, body |-> [error |-> text]]>>

C3_ValidationShortCircuits ==
    IsPost =>
        /\ MissingAudioUrl => Rejected("audioUrl is required")
        /\ MissingApiKey => Rejected("openaiApiKey is required")

\* C3 restricted to requests whose body is an object, where it holds.
C3_ObjectBody == HasBody => C3_ValidationShortCircuits

(***************************************************************************)
(* C4: the external calls happen only in the order download,               *)
(* transcription, language model; each starts only after the one before it *)
(* completed successfully; none is attempted twice; a 200 result has made  *)
(* each of the three exactly once.                                         *)
(***************************************************************************)
CallOrder == <<"fetch", "transcriptions", "chat">>

C4_Order ==
    /\ Len(calls) <= Len(CallOrder)
    /\ \A i \in 1..Len(calls) : calls[i].api = CallOrder[i]
    /\ \A i \in 2..Len(calls) : calls[i - 1].outcome = "ok"
    /\ \A i \in 1..Len(calls) :
          calls[i].outcome \in {"pending", "headers"} =>
              (i = Len(calls) /\ pc # "done")

AllThreeCallsOnce ==
    /\ Len(calls) = 3
    /\ \A i \in 1..3 : calls[i].outcome = "ok"

\* C4 as stated: every request that ends in 200 has made the three calls.
C4_Every200MadeThreeCalls ==
    /\ C4_Order
    /\ (responses # <<>> /\ responses[1].status = 200) => AllThreeCallsOnce

\* C4, amended: every POST request that ends in 200 has made the three
\* calls; the order, the no-retry and the stop-at-first-failure parts as stated.
C4_LinearCalls ==
    /\ C4_Order
    /\ (IsPost /\ responses # <<>> /\ responses[1].status = 200) =>
          AllThreeCallsOnce

C4_Witness ==
    /\ IsPost
    /\ pc = "done"
    /\ responses # <<>>
    /\ responses[1].status = 200
    /\ Len(calls) = 3
    /\ calls[3].outcome = "ok"

(***************************************************************************)
(* C5: for a validated POST request, a failed download, transcription or   *)
(* language-model call (in either mode) is answered 500 with exactly       *)
(* { error: "Transcription failed", message: <the failure's message> } and *)
(* no result field.                                                        *)
(***************************************************************************)
C5_FailureIs500 ==
    (/\ Validated
     /\ pc = "done"
     /\ calls # <<>>
     /\ LastCall.outcome \in {"rejected", "refused"}) =>
        /\ Len(responses) = 1
        /\ responses[1].status = 500
        /\ DOMAIN responses[1].body = {"error", "message"}
        /\ responses[1].body.error = "Transcription failed"
        /\ LastCall.outcome = "rejected" =>
              responses[1].body.message = LastCall.message
        /\ LastCall.outcome = "refused" =>
              responses[1].body.message = DownloadError(variant, audioResponse)

C5_Witness ==
    /\ Validated
    /\ pc = "done"
    /\ Len(calls) = 3
    /\ calls[3].arg.mode = "attribution"
    /\ calls[3].outcome = "rejected"
    /\ responses # <<>>

(***************************************************************************)
(* C6: when the download is answered with a non-success HTTP status, the   *)
(* response is { error: "Transcription failed", message: m } where m       *)
(* contains the status code and the status text, and neither the           *)
(* transcription nor the language-model service is called.                 *)
(***************************************************************************)
C6_DownloadStatusInMessage ==
    (/\ pc = "done"
     /\ calls # <<>>
     /\ calls[1].outcome = "refused") =>
        /\ Len(calls) = 1
        /\ Len(responses) = 1
        /\ responses[1].body.error = "Transcription failed"
        /\ Includes(responses[1].body.message, NumToStr(audioResponse.status))
        /\ Includes(responses[1].body.message, audioResponse.statusText)

\* C6 restricted to api/transcribe.js, where it holds.
C6_NewerCopy == (variant = "api/transcribe.js") => C6_DownloadStatusInMessage

(***************************************************************************)
(* C7: in a 200 result to a request without participants (absent or an     *)
(* empty array) speakers is [] and transcript = rawTranscript; speakers is *)
(* non-empty only if participants was a non-empty array and the            *)
(* attribution reply parsed.                                               *)
(***************************************************************************)
C7_SpeakersNeedAttribution ==
    Succeeded =>
        LET participants == req.body.f.participants
            body == responses[1].body
        IN  /\ (participants = Undefined \/ participants = Arr(<<>>)) =>
                  /\ body.speakers = Arr(<<>>)
                  /\ body.transcript = body.rawTranscript
            /\ body.speakers # Arr(<<>>) =>
                  /\ participants.t = "array"
                  /\ Len(participants.a) > 0
                  /\ calls[3].arg.mode = "attribution"
                  /\ ParsedReply

C7_Witness ==
    /\ Succeeded
    /\ req.body.f.participants = Arr(<<>>)
    /\ responses[1].body.meetingSummary = Txt(J_prose)

(***************************************************************************)
(* C8: for an audio URL containing the vendor-storage pattern the URL      *)
(* fetched is the audio URL followed by "&directDownload=true" if it has a *)
(* "?" and by "?directDownload=true" otherwise; any other URL is fetched   *)
(* unchanged.                                                              *)
(***************************************************************************)
ClaimedFetchUrl(u) ==
    IF ~Includes(u, <<"w", "o", "r", "k", "d", "r", "i", "v", "e", ".", "z", "o", "h", "o">>)
    THEN u
    ELSE u \o (IF Includes(u, <<"?">>) THEN <<"&">> ELSE <<"?">>)
           \o <<"d", "i", "r", "e", "c", "t", "D", "o", "w", "n", "l", "o", "a", "d", "=", "t", "r", "u", "e">>

C8_DirectDownloadFlag ==
    (calls # <<>> /\ req.body.f.audioUrl.t = "string") =>
        calls[1].arg = Str(ClaimedFetchUrl(req.body.f.audioUrl.s))

\* C8 restricted to api/transcribe.js, where it holds.
C8_NewerCopy == (variant = "api/transcribe.js") => C8_DirectDownloadFlag

(***************************************************************************)
(* C9: the MIME type and file name handed to the transcription service are *)
(* decided by the first extension, in the order .mp3 .wav .m4a .mp4 .ogg   *)
(* .webm, that occurs anywhere in the lower-cased audio URL; audio/mp4 and *)
(* audio.m4a when none occurs.                                             *)
(***************************************************************************)
Precedence ==
    <<[ext |-> <<".", "m", "p", "3">>, type |-> "audio/mpeg", name |-> "audio.mp3"],
      [ext |-> <<".", "w", "a", "v">>, type |-> "audio/wav", name |-> "audio.wav"],
      [ext |-> <<".", "m", "4", "a">>, type |-> "audio/mp4", name |-> "audio.m4a"],
      [ext |-> <<".", "m", "p", "4">>, type |-> "audio/mp4", name |-> "audio.mp4"],
      [ext |-> <<".", "o", "g", "g">>, type |-> "audio/ogg", name |-> "audio.ogg"],
      [ext |-> <<".", "w", "e", "b", "m">>, type |-> "audio/webm", name |-> "audio.webm"]>>

ClaimedFileType(u) ==
    LET hits == {i \in 1..Len(Precedence) : Includes(ToLowerCase(u), Precedence[i].ext)}
    IN  IF hits = {} THEN [type |-> "audio/mp4", name |-> "audio.m4a"]
        ELSE LET first == CHOOSE i \in hits : \A j \in hits : i <= j
             IN  [type |-> Precedence[first].type, name |-> Precedence[first].name]

C9_TypeFromUrl ==
    (Len(calls) >= 2 /\ req.body.f.audioUrl.t = "string") =>
        /\ calls[2].arg = ClaimedFileType(req.body.f.audioUrl.s)
        /\ audioFile = calls[2].arg

\* C9 restricted to api/transcribe.js, where it holds.
C9_NewerCopy == (variant = "api/transcribe.js") => C9_TypeFromUrl

(***************************************************************************)
(* C10: provided every started external call settles, an invocation        *)
(* eventually sends exactly one response, with status 200, 400, 405 or     *)
(* 500, and starts no external call once the response is sent.             *)
(***************************************************************************)
C10_OneResponse ==
    /\ <>(pc = "done" /\ Len(responses) = 1)
    /\ [](/\ Len(responses) <= 1
          /\ \A i \in 1..Len(responses) :
                responses[i].status \in {200, 400, 405, 500})
    /\ [][responses # <<>> => (calls' = calls /\ responses' = responses)]_vars

C10_Witness ==
    /\ pc = "done"
    /\ Len(responses) = 1
    /\ responses[1].status = 500
    /\ Len(calls) = 3
    /\ calls[3].outcome = "rejected"
    /\ calls[3].arg.mode = "summary"
====
